---- MODULE Spec2Model ----
(***************************************************************************)
(* Model of the Wildberries catalog harvester (src/main.py): the retrying  *)
(* HTTP client WBClient.get_json behind a shared asyncio.Semaphore, the    *)
(* paginator fetch_all_nm_ids, the detail fetch tasks and the consumer     *)
(* loop of main with its two output sheets and counters.                   *)
(*                                                                         *)
(* asyncio is cooperative: a coroutine runs without interruption from one  *)
(* suspension point (network call, semaphore wait, sleep, await of a task) *)
(* to the next.  Every action below is one such uninterrupted stretch.     *)
(*                                                                         *)
(* Units: delays are in tenths of a second, prices in minor units          *)
(* (kopecks, as the API sends them), ratings in tenths of a star.          *)
(***************************************************************************)
EXTENDS Integers, Sequences, FiniteSets, TLC

(***************************************************************************)
(* Bounds of the model: max_attempts (10 in main), the permits of the      *)
(* semaphore (2), batch_size (100), limit (100) and max_pages (20).        *)
(***************************************************************************)
MaxAttempts == 2
SemPermits == 1
BatchSize == 2
Limit == 2
MaxPages == 3

(***************************************************************************)
(* Program constants.                                                      *)
(***************************************************************************)
TRANSIENT == {429, 500, 502, 503, 504}
BaseDelay == 15
MaxDelay == 600
JitterMax == 12
RatingMin == 45
PriceMax == 1000000
None == -1

VARIABLES
    \* WBClient
    max_attempts, base_delay, max_delay,
    permits,      \* value of the shared asyncio.Semaphore
    holding,      \* callers inside "async with self.sem"
    call,         \* per caller: the frame of its get_json call (pc, attempt,
                  \* pending sleep delay, result, http.get and sleep counts)
    \* fetch_all_nm_ids
    page, nm_ids, prev_page_ids,
    requested,    \* history: the page numbers of the search fetches made
    served,       \* history: the product lists the search endpoint returned
    \* main
    mpc, exc, i, task, tres, doneq,
    ws_full, ws_filt, ok_full, ok_filt, failed, empty,
    launched, settled, \* history: identifiers whose task was created / is done
    fate,         \* history: how the get_json of main and of each task ended
    disk, saves,  \* the two saved files and how often each was saved
    answered      \* history of a get_json call followed on its own: the
                  \* answer to its last http.get, the jitter drawn after it
                  \* and the attempt it answered

clientVars == <<max_attempts, base_delay, max_delay, permits, holding, call>>
pageVars == <<page, nm_ids, prev_page_ids, requested, served>>
taskVars == <<i, task, tres, doneq, launched, settled, fate>>
outVars == <<ws_full, ws_filt, ok_full, ok_filt, failed, empty>>
saveVars == <<disk, saves>>
mainVars == <<mpc, exc, taskVars, outVars, saveVars>>
configVars == <<max_attempts, base_delay, max_delay>>
vars == <<clientVars, pageVars, mainVars, answered>>

(***************************************************************************)
(* Callers of get_json: 0 is the main coroutine (pagination), 1..BatchSize *)
(* are the detail tasks of the current batch.                              *)
(***************************************************************************)
Main == 0
Slots == 1..BatchSize
Callers == {Main} \cup Slots

(***************************************************************************)
(* HTTP responses.  kind "exc" is a transport failure (httpx.HTTPError,    *)
(* timeouts included); kind "http" carries a status, the Retry-After       *)
(* header and a body.  A body is "invalid" (r.json() raises), "falsy"      *)
(* ({}, [], null, 0: valid JSON that is false in Python), "bad" (truthy    *)
(* JSON that is no mapping) or "dict" with the product list the caller     *)
(* finds in it (empty when the key is missing or holds nothing).           *)
(***************************************************************************)
NoHeader == -1
BadHeader == -2
RetryAfterHeaders == {NoHeader, BadHeader, 0, 30, 1000}
Jitters == {0, JitterMax}

Body(k, ps) == [kind |-> k, products |-> ps]
NoBody == Body("falsy", <<>>)
ExcResponse == [kind |-> "exc", status |-> 0, ra |-> NoHeader, body |-> NoBody]
HttpResponse(s, h, b) == [kind |-> "http", status |-> s, ra |-> h, body |-> b]

TransientResponses ==
    { HttpResponse(s, h, NoBody) : s \in TRANSIENT, h \in RetryAfterHeaders }
FatalResponses == { HttpResponse(s, NoHeader, NoBody) : s \in {404, 403} }
UnusableBodies ==
    { HttpResponse(200, NoHeader, Body(k, <<>>)) : k \in {"falsy", "invalid"} }
FailureResponses ==
    {ExcResponse} \cup TransientResponses \cup FatalResponses \cup UnusableBodies

\* the failures the endpoints answer with in a run of main (time is not
\* observed there: one Retry-After value and one jitter value)
RunFailures ==
    {ExcResponse} \cup FatalResponses \cup UnusableBodies
      \cup { HttpResponse(s, h, NoBody) : s \in TRANSIENT, h \in {NoHeader, 30} }
RunJitters == {0}


(***************************************************************************)
(* WBClient                                                                *)
(***************************************************************************)
Min(a, b) == IF a <= b THEN a ELSE b

\* _retry_after: the header as a float, None when absent, empty or unparseable
RetryAfter(r) ==
    IF r.ra = NoHeader THEN None
    ELSE IF r.ra = BadHeader THEN None
    ELSE r.ra

\* the computed part of _sleep_backoff's delay
BackoffUnclamped(a) == base_delay * 2 ^ (a - 1)
Backoff(a) == Min(max_delay, base_delay * 2 ^ (a - 1))

\* _sleep_backoff: the delay handed to asyncio.sleep; j is the jitter drawn
SleepBackoff(a, retry_after, j) ==
    IF retry_after # None THEN retry_after ELSE Backoff(a) + j

\* "attempt != self.max_attempts" of get_json, negated
LastAttemptSkewed(a) == a = max_attempts + 1
LastAttempt(a) == a = max_attempts

\* the branch get_json takes on a response received during attempt a
OutcomeRetriesFatal(a, r) ==
    IF r.kind = "http" /\ r.status = 200
    THEN IF r.body.kind = "invalid" THEN "raise"
         ELSE IF r.body.kind # "falsy" THEN "return"
         ELSE IF ~LastAttempt(a) THEN "retry" ELSE "raise"
    ELSE IF ~LastAttempt(a) THEN "retry" ELSE "raise"
Outcome(a, r) ==
    IF r.kind = "exc"
    THEN IF ~LastAttempt(a) THEN "retry" ELSE "raise"
    ELSE IF r.status = 200
    THEN IF r.body.kind = "invalid" THEN "raise"
         ELSE IF r.body.kind # "falsy" THEN "return"
         ELSE IF ~LastAttempt(a) THEN "retry" ELSE "raise"
    ELSE IF r.status \in TRANSIENT /\ ~LastAttempt(a) THEN "retry"
    ELSE "raise"

\* the exception get_json ends with on a response that makes it raise
ErrorOf(r) ==
    IF r.kind = "exc" THEN "HTTPError"
    ELSE IF r.status = 200 /\ r.body.kind = "invalid" THEN "ValueError"
    ELSE "RuntimeError"

\* the delay of the sleep before the retry that follows response r
RetryDelayComputed(a, r, j) == SleepBackoff(a, None, j)
RetryDelay(a, r, j) ==
    IF r.kind = "http" /\ r.status # 200
    THEN SleepBackoff(a, IF r.status = 429 THEN RetryAfter(r) ELSE None, j)
    ELSE SleepBackoff(a, None, j)

NoAnswer == [r |-> ExcResponse, j |-> 0, a |-> 0]

FreshCall ==
    [pc |-> "idle", attempt |-> 0, delay |-> 0, res |-> "none",
     gets |-> 0, sleeps |-> 0]

\* entering get_json: the first iteration of the attempt loop, or its end
Entered ==
    IF 1 <= max_attempts
    THEN [FreshCall EXCEPT !.pc = "acquire", !.attempt = 1]
    ELSE [FreshCall EXCEPT !.pc = "raised", !.res = "RuntimeError"]

\* "continue": the next iteration of the attempt loop, or the raise after it
NextAttemptRestart(s) == [FreshCall EXCEPT !.pc = "acquire", !.attempt = 1]
NextAttempt(s) ==
    IF s.attempt + 1 <= max_attempts
    THEN [s EXCEPT !.pc = "acquire", !.attempt = @ + 1, !.delay = 0]
    ELSE [s EXCEPT !.pc = "raised", !.res = "RuntimeError", !.delay = 0]

\* the frame after the response r to the http.get of this attempt
Responded(s, r, j) ==
    LET o == Outcome(s.attempt, r) IN
    IF o = "retry"
    THEN [s EXCEPT !.pc = "sleep", !.delay = RetryDelay(s.attempt, r, j),
                   !.sleeps = @ + 1]
    ELSE IF o = "return" THEN [s EXCEPT !.pc = "returned", !.res = "data"]
    ELSE [s EXCEPT !.pc = "raised", !.res = ErrorOf(r)]

\* asyncio.Semaphore: a permit can be taken
CanAcquireUnbounded == TRUE
CanAcquire == permits > 0

\* "async with self.sem" entered, http.get issued
Acquire(c) ==
    /\ call[c].pc = "acquire"
    /\ CanAcquire
    /\ permits' = permits - 1
    /\ holding' = holding \cup {c}
    /\ call' = [call EXCEPT ![c] = [@ EXCEPT !.pc = "inflight", !.gets = @ + 1]]
    /\ UNCHANGED <<configVars, answered, pageVars, mainVars>>

\* "async with self.sem" left: the http.get returned or raised
ReleaseMissing(c) == UNCHANGED <<permits, holding>>
ReleaseKeepsPermit(c) ==
    /\ permits' = permits
    /\ holding' = holding \ {c}
Release(c) ==
    /\ permits' = permits + 1
    /\ holding' = holding \ {c}


(***************************************************************************)
(* Record extraction and the filter.  A characteristics tree is a node     *)
(* [t, s, items]: a scalar ("str", its text s as a sequence of            *)
(* characters), a list or a dict (items: entries [k, v], k empty in a      *)
(* list).                                                                  *)
(***************************************************************************)
NonNumeric == -2

Str(s) == [t |-> "str", s |-> s, items |-> <<>>]
List(vs) == [t |-> "list", s |-> <<>>, items |-> [n \in DOMAIN vs |-> [k |-> <<>>, v |-> vs[n]]]]
Dict(es) == [t |-> "dict", s |-> <<>>, items |-> es]
EmptyDict == Dict(<<>>)

\* str.lower() on the letters the model's texts use
LowerChar(ch) ==
    CASE ch = "R" -> "r" [] ch = "S" -> "s" [] ch = "K" -> "k" [] OTHER -> ch
Lower(s) == [n \in DOMAIN s |-> LowerChar(s[n])]

\* "m in s" on strings
Contains(s, m) ==
    \E off \in 0..(Len(s) - Len(m)) : \A n \in 1..Len(m) : s[off + n] = m[n]

RECURSIVE Concat(_)
Concat(ss) == IF ss = <<>> THEN <<>> ELSE Head(ss) \o Concat(Tail(ss))

\* str(x): a scalar's text; a container's repr, which shows keys and values
RECURSIVE StrOf(_)
StrOf(x) ==
    IF x.t = "str" THEN x.s
    ELSE IF x.t = "list"
    THEN <<"[">> \o Concat([n \in DOMAIN x.items |->
                    <<"'">> \o StrOf(x.items[n].v) \o <<"'", ",">>]) \o <<"]">>
    ELSE <<"{">> \o Concat([n \in DOMAIN x.items |->
                    <<"'">> \o x.items[n].k \o <<"'", ":", "'">>
                      \o StrOf(x.items[n].v) \o <<"'", ",">>]) \o <<"}">>

COUNTRY == <<"s", "t", "r", "a", "n", "a">>
RUSSIA == <<"r", "o", "s", "s", "i", "y", "a">>

RECURSIVE has_russia(_)
has_russia(x) ==
    IF x.t = "dict"
    THEN \E n \in DOMAIN x.items :
            \/ /\ Contains(Lower(x.items[n].k), COUNTRY)
               /\ Contains(Lower(StrOf(x.items[n].v)), RUSSIA)
            \/ has_russia(x.items[n].v)
    ELSE IF x.t = "list"
    THEN \E n \in DOMAIN x.items : has_russia(x.items[n].v)
    ELSE Contains(Lower(x.s), RUSSIA)

\* money: minor units to major units (carried as a count of hundredths),
\* None for an absent or non-numeric value
money(v) == IF v = None \/ v = NonNumeric THEN None ELSE v

\* Python truthiness of an optional number
Truthy(x) == x # None /\ x # 0

\* parse_row_and_chars: the row (the fields the filter and the sheets'
\* identity rest on) and the characteristics tree
parse_row_and_chars(p) ==
    LET a == money(p.salePriceU)
        b == money(p.priceU)
        c == money(p.price)
        price == IF Truthy(a) THEN a ELSE IF Truthy(b) THEN b ELSE c
        rating == IF p.rating = None \/ p.rating = NonNumeric THEN None ELSE p.rating
    IN  [row |-> [id |-> p.id, price |-> price, rating |-> rating,
                  characteristics_json |-> p.chars],
         ch |-> p.chars]

\* the filter of main: the row goes to the filtered sheet
KeepAlways(row, ch) == TRUE
Keep(row, ch) ==
    /\ ~(row.price = None \/ row.rating = None)
    /\ ~(row.rating < RatingMin)
    /\ ~(row.price > PriceMax)
    /\ has_russia(ch)

(***************************************************************************)
(* Detail payloads and the responses of the two endpoints.                 *)
(***************************************************************************)
TreeRussia ==
    Dict(<<[k |-> <<"S", "o", "s", "t", "a", "v">>,
            v |-> List(<<Dict(<<[k |-> <<"S", "t", "r", "a", "n", "a">>,
                                 v |-> Str(<<"R", "o", "s", "s", "i", "y", "a">>)]>>)>>)]>>)
TreeOther ==
    Dict(<<[k |-> <<"S", "t", "r", "a", "n", "a">>,
            v |-> Str(<<"K", "i", "t", "a", "y">>)]>>)

Payload(nm, sale, pu, pr, rt, ch) ==
    [id |-> nm, salePriceU |-> sale, priceU |-> pu, price |-> pr,
     rating |-> rt, chars |-> ch]

\* payloads the detail endpoint answers with in a run: one the filter keeps
\* and one it drops
RunPayloads(nm) ==
    { Payload(nm, PriceMax, None, None, RatingMin, TreeRussia),
      Payload(nm, None, PriceMax + 1, None, None, TreeOther) }

OkResponse(b) == HttpResponse(200, NoHeader, b)

DetailResponses(nm) ==
    RunFailures
      \cup { OkResponse(Body("dict", <<p>>)) : p \in RunPayloads(nm) }
      \cup { OkResponse(Body("dict", <<>>)), OkResponse(Body("bad", <<>>)) }


(***************************************************************************)
(* fetch_all_nm_ids.  A product of a search page is the identifier its     *)
(* id/nmId/nm key coerces to, NoId when int() fails on it.  During         *)
(* pagination nm_ids is the paginator's list; when it returns, nm_ids is   *)
(* main's deduplicated list.                                               *)
(***************************************************************************)
NoId == 0

Range(s) == { s[n] : n \in DOMAIN s }

\* page_ids of one page
PageIdsOf(products) == Range(products) \ {NoId}

\* the orders in which iterating a set can yield its elements
Orderings(S) == { o \in [1..Cardinality(S) -> S] : Range(o) = S }

\* list(dict.fromkeys(s)): first occurrences, in order
RECURSIVE DedupFrom(_, _)
DedupFrom(s, seen) ==
    IF s = <<>> THEN <<>>
    ELSE IF Head(s) \in seen THEN DedupFrom(Tail(s), seen)
    ELSE <<Head(s)>> \o DedupFrom(Tail(s), seen \cup {Head(s)})
Dedup(s) == DedupFrom(s, {})

\* one iteration of the page loop on a returned product list; ord is the
\* order in which extend() reads page_ids.  stop: the loop breaks
PageStepNoRepeatCheck(products, ord) ==
    [stop |-> products = <<>> \/ Len(products) < Limit,
     ids |-> nm_ids \o ord, prev |-> PageIdsOf(products)]
PageStepEmptyContinues(products, ord) ==
    LET page_ids == PageIdsOf(products) IN
    IF page_ids # {} /\ page_ids = prev_page_ids
    THEN [stop |-> TRUE, ids |-> nm_ids, prev |-> prev_page_ids]
    ELSE [stop |-> products # <<>> /\ Len(products) < Limit,
          ids |-> nm_ids \o ord, prev |-> page_ids]
PageStepPartialDropped(products, ord) ==
    LET page_ids == PageIdsOf(products) IN
    IF products = <<>> \/ Len(products) < Limit
    THEN [stop |-> TRUE, ids |-> nm_ids, prev |-> prev_page_ids]
    ELSE IF page_ids # {} /\ page_ids = prev_page_ids
    THEN [stop |-> TRUE, ids |-> nm_ids, prev |-> prev_page_ids]
    ELSE [stop |-> FALSE, ids |-> nm_ids \o ord, prev |-> page_ids]
PageStep(products, ord) ==
    LET page_ids == PageIdsOf(products) IN
    IF products = <<>>
    THEN [stop |-> TRUE, ids |-> nm_ids, prev |-> prev_page_ids]
    ELSE IF page_ids # {} /\ page_ids = prev_page_ids
    THEN [stop |-> TRUE, ids |-> nm_ids, prev |-> prev_page_ids]
    ELSE [stop |-> Len(products) < Limit, ids |-> nm_ids \o ord, prev |-> page_ids]


(***************************************************************************)
(* main                                                                    *)
(***************************************************************************)
HeaderRow ==
    [id |-> 0, price |-> None, rating |-> None, characteristics_json |-> EmptyDict]
NoPayload == Payload(0, None, None, None, None, EmptyDict)
Unused == [kind |-> "unused", p |-> NoPayload]
Pending == [kind |-> "pending", p |-> NoPayload]
Consumed == [kind |-> "consumed", p |-> NoPayload]

NoServed == [n |-> 0, all |-> {}, prev |-> {}, last |-> <<>>, seq |-> <<>>]
\* the history after one more product list was returned (seq: the products
\* of all the lists, in the order the endpoint gave them)
Served(products) ==
    [n |-> served.n + 1,
     all |-> served.all \cup PageIdsOf(served.last),
     prev |-> PageIdsOf(served.last),
     last |-> products,
     seq |-> served.seq \o products]

\* the finally block of main, reached by a return or by an exception e
Exit(e) ==
    /\ mpc' = "done"
    /\ exc' = e
    /\ disk' = [full |-> ws_full, filt |-> ws_filt]
    /\ saves' = [f \in {"full", "filt"} |-> saves[f] + 1]
    /\ UNCHANGED <<i, task, tres, doneq, launched, settled, outVars>>

\* one iteration of the batch loop up to its first await: the tasks of
\* nm_ids[start : start + batch_size] are created; every task enters get_json
LaunchBatch(start) ==
    LET n == Min(BatchSize, Len(nm_ids) - start) IN
    /\ i' = start
    /\ task' = [k \in Slots |-> IF k <= n THEN nm_ids[start + k] ELSE 0]
    /\ tres' = [k \in Slots |-> IF k <= n THEN Pending ELSE Unused]
    /\ doneq' = <<>>
    /\ launched' = launched \cup { nm_ids[start + k] : k \in 1..n }
    /\ mpc' = "drain"
    /\ call' = [c \in Callers |-> IF c \in 1..n THEN Entered
                                  ELSE IF c \in Slots THEN FreshCall ELSE call[c]]
    /\ UNCHANGED <<exc, settled, fate, outVars, saveVars>>

\* the call of get_json for the current page
RequestPage ==
    /\ call' = [call EXCEPT ![Main] = Entered]
    /\ requested' = Append(requested, page)
    /\ mpc' = "await_page"

\* main up to its first await: the first search request
MainStart ==
    /\ mpc = "start"
    /\ RequestPage
    /\ UNCHANGED <<configVars, answered, permits, holding, page, nm_ids, prev_page_ids,
                   served, exc, taskVars, outVars, saveVars>>

\* fetch_all_nm_ids returns list(dict.fromkeys(ids))
FinishPagination(ids) ==
    /\ nm_ids' = Dedup(ids)
    /\ mpc' = "paged"
    /\ UNCHANGED <<page, prev_page_ids, exc, taskVars, outVars, saveVars>>

\* get_json raised e inside fetch_all_nm_ids, or the body was no mapping:
\* nothing catches it before the finally block of main
PageFailedSwallowed(e) ==
    /\ fate' = [fate EXCEPT !.page = e]
    /\ nm_ids' = Dedup(nm_ids)
    /\ mpc' = "paged"
    /\ UNCHANGED <<page, prev_page_ids, served, exc, i, task, tres, doneq,
                   launched, settled, outVars, saveVars>>
PageFailed(e) ==
    /\ fate' = [fate EXCEPT !.page = e]
    /\ Exit(e)
    /\ UNCHANGED <<page, nm_ids, prev_page_ids, served>>

\* the search request of main is answered with r
SearchRespond(r, j, ord) ==
    /\ mpc = "await_page"
    /\ call[Main].pc = "inflight"
    /\ Release(Main)
    /\ UNCHANGED <<configVars, answered, requested>>
    /\ LET s == Responded(call[Main], r, j) IN
       \* the frame of get_json lives on only through a backoff sleep
       /\ call' = [call EXCEPT ![Main] = IF s.pc = "sleep" THEN s ELSE FreshCall]
       /\ IF s.pc = "sleep"
          THEN UNCHANGED <<page, nm_ids, prev_page_ids, served, mainVars>>
          ELSE IF s.pc = "raised" THEN PageFailed(s.res)
          ELSE IF r.body.kind = "bad" THEN PageFailed("AttributeError")
          ELSE LET st == PageStep(r.body.products, ord) IN
               /\ served' = Served(r.body.products)
               /\ IF st.stop
                  THEN FinishPagination(st.ids)
                  ELSE /\ prev_page_ids' = st.prev
                       /\ page' = page + 1
                       /\ nm_ids' = st.ids
                       /\ mpc' = "page_sleep"
                       /\ UNCHANGED <<exc, taskVars, outVars, saveVars>>

\* the backoff sleep of main's get_json ends
MainWake ==
    /\ mpc = "await_page"
    /\ call[Main].pc = "sleep"
    /\ LET s == NextAttempt(call[Main]) IN
       /\ call' = [call EXCEPT ![Main] = IF s.pc = "raised" THEN FreshCall ELSE s]
       /\ IF s.pc = "raised"
          THEN PageFailed(s.res)
          ELSE UNCHANGED <<page, nm_ids, prev_page_ids, served, mainVars>>
    /\ UNCHANGED <<configVars, answered, permits, holding, requested>>

\* asyncio.sleep(0.35) ends: the loop test, then the next page or the return
PageSleepDoneUnbounded ==
    /\ mpc = "page_sleep"
    /\ RequestPage
    /\ UNCHANGED <<page, prev_page_ids, nm_ids, exc, taskVars, outVars, saveVars>>
    /\ UNCHANGED <<configVars, answered, permits, holding, served>>
PageSleepDone ==
    /\ mpc = "page_sleep"
    /\ IF page <= MaxPages
       THEN /\ RequestPage
            /\ UNCHANGED <<page, prev_page_ids, nm_ids, exc, taskVars, outVars, saveVars>>
       ELSE FinishPagination(nm_ids) /\ UNCHANGED <<call, requested>>
    /\ UNCHANGED <<configVars, answered, permits, holding, served>>

\* main has its nm_ids: it returns on an empty list, else starts the first
\* batch.  The locals of fetch_all_nm_ids ended with its frame
HarvestStart ==
    /\ mpc = "paged"
    /\ page' = 1
    /\ prev_page_ids' = {}
    /\ served' = NoServed
    /\ IF nm_ids = <<>>
       THEN Exit("none") /\ UNCHANGED <<call, fate>>
       ELSE LaunchBatch(0)
    /\ UNCHANGED <<configVars, answered, permits, holding, nm_ids, requested>>

\* fetch_detail: what the task ends with once its get_json frame s has ended
\* on response r ("none": it returns None; "exc": it raises)
FetchDetail(s, r) ==
    IF s.pc = "raised" THEN [kind |-> "none", p |-> NoPayload]
    ELSE IF r.body.kind = "bad" THEN [kind |-> "exc", p |-> NoPayload]
    ELSE IF r.body.products = <<>> THEN [kind |-> "none", p |-> NoPayload]
    ELSE [kind |-> "payload", p |-> r.body.products[1]]

\* the history entry of a detail fetch whose get_json frame s ended on r
FateOf(s, r) ==
    IF s.pc = "raised" THEN "raised"
    ELSE IF r.body.kind = "bad" THEN "malformed"
    ELSE IF r.body.products = <<>> THEN "nopayload"
    ELSE "payload"

\* the task in slot k is done with result res: as_completed queues it
Settle(k, res, how) ==
    /\ tres' = [tres EXCEPT ![k] = res]
    /\ doneq' = Append(doneq, k)
    /\ settled' = settled \cup {task[k]}
    /\ fate' = [fate EXCEPT !.detail = @ \cup {<<task[k], how>>}]
    /\ UNCHANGED <<mpc, exc, i, task, launched, outVars, saveVars>>

\* the detail request of the task in slot k is answered with r
DetailRespond(k, r, j) ==
    /\ mpc = "drain"
    /\ call[k].pc = "inflight"
    /\ Release(k)
    /\ LET s == Responded(call[k], r, j) IN
       /\ call' = [call EXCEPT ![k] = IF s.pc = "sleep" THEN s ELSE FreshCall]
       /\ IF s.pc = "sleep"
          THEN UNCHANGED mainVars
          ELSE Settle(k, FetchDetail(s, r), FateOf(s, r))
    /\ UNCHANGED <<configVars, answered, pageVars>>

\* the backoff sleep of the task in slot k ends
TaskWake(k) ==
    /\ mpc = "drain"
    /\ call[k].pc = "sleep"
    /\ LET s == NextAttempt(call[k]) IN
       /\ call' = [call EXCEPT ![k] = IF s.pc = "raised" THEN FreshCall ELSE s]
       /\ IF s.pc = "raised"
          THEN Settle(k, FetchDetail(s, ExcResponse), FateOf(s, ExcResponse))
          ELSE UNCHANGED mainVars
    /\ UNCHANGED <<configVars, answered, permits, holding, pageVars>>

\* main takes the next completed task from as_completed; after the last one
\* of the batch it goes to asyncio.sleep(0.4)
Taken(k) ==
    /\ mpc = "drain"
    /\ doneq # <<>>
    /\ k = Head(doneq)
    /\ doneq' = Tail(doneq)
    /\ tres' = [tres EXCEPT ![k] = Consumed]
    /\ UNCHANGED <<i, task, launched, settled, fate, clientVars, pageVars, answered>>

\* the loop over as_completed goes on, or the batch is drained
ContinueEarly(k) ==
    /\ mpc' = "batch_sleep"
    /\ UNCHANGED <<exc, saveVars>>
Continue(k) ==
    /\ mpc' = IF \A k2 \in Slots \ {k} : tres[k2].kind \in {"consumed", "unused"}
              THEN "batch_sleep" ELSE "drain"
    /\ UNCHANGED <<exc, saveVars>>

\* "await fut" raises: except Exception
ConsumeFailedAborts(k) ==
    /\ Taken(k)
    /\ tres[k].kind = "exc"
    /\ mpc' = "done"
    /\ exc' = "AttributeError"
    /\ disk' = [full |-> ws_full, filt |-> ws_filt]
    /\ saves' = [f \in {"full", "filt"} |-> saves[f] + 1]
    /\ UNCHANGED outVars
ConsumeFailed(k) ==
    /\ Taken(k)
    /\ tres[k].kind = "exc"
    /\ failed' = failed + 1
    /\ Continue(k)
    /\ UNCHANGED <<ws_full, ws_filt, ok_full, ok_filt, empty>>

\* "if not d"
ConsumeEmptyUncounted(k) ==
    /\ Taken(k)
    /\ tres[k].kind = "none"
    /\ Continue(k)
    /\ UNCHANGED outVars
ConsumeEmpty(k) ==
    /\ Taken(k)
    /\ tres[k].kind = "none"
    /\ empty' = empty + 1
    /\ Continue(k)
    /\ UNCHANGED <<ws_full, ws_filt, ok_full, ok_filt, failed>>

\* the sheets and counters after a payload d
EmitFilteredFirst(d) ==
    LET parsed == parse_row_and_chars(d) IN
    /\ ws_filt' = Append(ws_filt, parsed.row)
    /\ ok_filt' = ok_filt + 1
    /\ IF Keep(parsed.row, parsed.ch)
       THEN ws_full' = Append(ws_full, parsed.row) /\ ok_full' = ok_full + 1
       ELSE UNCHANGED <<ws_full, ok_full>>
Emit(d) ==
    LET parsed == parse_row_and_chars(d) IN
    /\ ws_full' = Append(ws_full, parsed.row)
    /\ ok_full' = ok_full + 1
    /\ IF Keep(parsed.row, parsed.ch)
       THEN ws_filt' = Append(ws_filt, parsed.row) /\ ok_filt' = ok_filt + 1
       ELSE UNCHANGED <<ws_filt, ok_filt>>

\* a payload: the row goes to the full sheet and, past the filter, to the
\* filtered sheet
ConsumeRecord(k) ==
    /\ Taken(k)
    /\ tres[k].kind = "payload"
    /\ Emit(tres[k].p)
    /\ Continue(k)
    /\ UNCHANGED <<failed, empty>>

\* asyncio.sleep(0.4) ends: the next batch, or the end of main
BatchSleepDone ==
    /\ mpc = "batch_sleep"
    /\ IF i + BatchSize < Len(nm_ids)
       THEN LaunchBatch(i + BatchSize)
       ELSE Exit("none") /\ UNCHANGED <<call, fate>>
    /\ UNCHANGED <<configVars, answered, permits, holding, pageVars>>

(***************************************************************************)
(* The run of main.                                                        *)
(***************************************************************************)
MaxId == Limit + 1
LowPage == [n \in 1..Limit |-> n]
HighPage == [n \in 1..Limit |-> MaxId + 1 - n]

\* product lists the search endpoint answers with in a run
RunPages == { <<>>, LowPage, HighPage, <<MaxId>>, <<NoId>> }

SearchResponses(pages) ==
    RunFailures
      \cup { OkResponse(Body("dict", ps)) : ps \in pages }
      \cup { OkResponse(Body("bad", <<>>)) }

InitClient(N, bd, md) ==
    /\ max_attempts = N
    /\ base_delay = bd
    /\ max_delay = md
    /\ permits = SemPermits
    /\ holding = {}
    /\ call = [c \in Callers |-> FreshCall]

InitMain(pc) ==
    /\ page = 1
    /\ nm_ids = <<>>
    /\ prev_page_ids = {}
    /\ requested = <<>>
    /\ served = NoServed
    /\ mpc = pc
    /\ exc = "none"
    /\ i = 0
    /\ task = [k \in Slots |-> 0]
    /\ tres = [k \in Slots |-> Unused]
    /\ doneq = <<>>
    /\ ws_full = <<HeaderRow>>
    /\ ws_filt = <<HeaderRow>>
    /\ ok_full = 0
    /\ ok_filt = 0
    /\ failed = 0
    /\ empty = 0
    /\ launched = {}
    /\ settled = {}
    /\ fate = [page |-> "none", detail |-> {}]
    /\ disk = [full |-> <<>>, filt |-> <<>>]
    /\ saves = [f \in {"full", "filt"} |-> 0]
    /\ answered = NoAnswer

Init == InitClient(MaxAttempts, BaseDelay, MaxDelay) /\ InitMain("start")

\* fetch_all_nm_ids, with the search endpoint answering from pages
Paginate(pages) ==
    \/ \E r \in SearchResponses(pages), j \in RunJitters :
          \E ord \in Orderings(PageIdsOf(r.body.products)) : SearchRespond(r, j, ord)
    \/ MainWake
    \/ PageSleepDone

\* the detail tasks of the current batch
Tasks ==
    \/ \E k \in Slots : \E r \in DetailResponses(task[k]), j \in RunJitters :
          DetailRespond(k, r, j)
    \/ \E k \in Slots : TaskWake(k)

\* the consumer loop of main
Consume ==
    \/ \E k \in Slots : ConsumeFailed(k)
    \/ \E k \in Slots : ConsumeEmpty(k)
    \/ \E k \in Slots : ConsumeRecord(k)
    \/ BatchSleepDone

Next ==
    \/ MainStart
    \/ \E c \in Callers : Acquire(c)
    \/ Paginate(RunPages)
    \/ HarvestStart
    \/ Tasks
    \/ Consume

Spec == Init /\ [][Next]_vars


(***************************************************************************)
(* fetch_all_nm_ids on its own, against a search endpoint that answers     *)
(* with any of PageLists.                                                  *)
(***************************************************************************)
RevLowPage == [n \in 1..Limit |-> Limit + 1 - n]
DupPage == [n \in 1..Limit |-> 1]
NoIdPage == [n \in 1..Limit |-> NoId]
PageLists == RunPages \cup {RevLowPage, DupPage, NoIdPage}

NextPages ==
    \/ MainStart
    \/ \E c \in Callers : Acquire(c)
    \/ Paginate(PageLists)

SpecPages == Init /\ [][NextPages]_vars

(***************************************************************************)
(* fetch_all_nm_ids against a search endpoint that never fails: it answers *)
(* 200 with a product list, and reports the end of the catalog either with *)
(* a body that holds no products or with an empty JSON body.               *)
(***************************************************************************)
CatalogEndResponses ==
    { OkResponse(Body("dict", ps)) : ps \in PageLists } \cup { OkResponse(NoBody) }

PaginateToEnd ==
    \/ \E r \in CatalogEndResponses, j \in RunJitters :
          \E ord \in Orderings(PageIdsOf(r.body.products)) : SearchRespond(r, j, ord)
    \/ MainWake
    \/ PageSleepDone

NextCatalogEnd ==
    \/ MainStart
    \/ \E c \in Callers : Acquire(c)
    \/ PaginateToEnd

SpecCatalogEnd == Init /\ [][NextCatalogEnd]_vars

(***************************************************************************)
(* get_json on its own: ClientCallers coroutines call it once each on one  *)
(* client, whose attempt budget and delays are those of its constructor.   *)
(***************************************************************************)
ClientCallers == 0..SemPermits
ClientConfigs ==
    { <<BaseDelay, MaxDelay>>,
      <<BaseDelay, BaseDelay + BaseDelay \div 3>>,
      <<BaseDelay, BaseDelay - BaseDelay \div 3>> }

InitClientOnly ==
    /\ \E N \in 0..MaxAttempts, cfg \in ClientConfigs : InitClient(N, cfg[1], cfg[2])
    /\ InitMain("client")

Call(c) ==
    /\ call[c].pc = "idle"
    /\ call' = [call EXCEPT ![c] = Entered]
    /\ UNCHANGED <<configVars, answered, permits, holding, pageVars, mainVars>>

ClientRespond(c, r, j) ==
    /\ call[c].pc = "inflight"
    /\ Release(c)
    /\ call' = [call EXCEPT ![c] = Responded(@, r, j)]
    /\ UNCHANGED <<configVars, answered, pageVars, mainVars>>

ClientWake(c) ==
    /\ call[c].pc = "sleep"
    /\ call' = [call EXCEPT ![c] = NextAttempt(@)]
    /\ UNCHANGED <<configVars, answered, permits, holding, pageVars, mainVars>>

\* the endpoint answers every attempt with a transient status
TransientRespond(c) ==
    \E r \in TransientResponses, j \in Jitters : ClientRespond(c, r, j)

NextTransient ==
    \/ \E c \in ClientCallers : Call(c)
    \/ \E c \in ClientCallers : Acquire(c)
    \/ \E c \in ClientCallers : TransientRespond(c)
    \/ \E c \in ClientCallers : ClientWake(c)

SpecTransient == InitClientOnly /\ [][NextTransient]_vars

\* the event loop runs every coroutine that can run; every http.get is answered
FairTransient ==
    /\ SpecTransient
    /\ \A c \in ClientCallers :
          /\ WF_vars(Acquire(c))
          /\ WF_vars(TransientRespond(c))
          /\ WF_vars(ClientWake(c))

(***************************************************************************)
(* The filter on its own: a run over a catalog of one identifier whose      *)
(* detail endpoint answers with any of FilterPayloads.                      *)
(***************************************************************************)
TreeLeaf ==
    Dict(<<[k |-> <<"S", "o", "s", "t", "a", "v">>,
            v |-> List(<<Str(<<"K", "i", "t", "a", "y">>),
                         Str(<<"R", "o", "s", "s", "i", "y", "a">>)>>)]>>)

FilterPayloads(nm) ==
    { Payload(nm, sale, pu, None, rt, ch) :
        sale \in {None, NonNumeric, 0, PriceMax - 1, PriceMax, PriceMax + 1},
        pu \in {None, PriceMax},
        rt \in {None, NonNumeric, RatingMin - 1, RatingMin, RatingMin + 1},
        ch \in {TreeRussia, TreeLeaf, TreeOther, EmptyDict} }

FilterSearch ==
    \E ord \in Orderings({MaxId}) :
        SearchRespond(OkResponse(Body("dict", <<MaxId>>)), 0, ord)

FilterDetail ==
    \E k \in Slots : \E p \in FilterPayloads(task[k]) :
        DetailRespond(k, OkResponse(Body("dict", <<p>>)), 0)

NextFilter ==
    \/ MainStart
    \/ \E c \in Callers : Acquire(c)
    \/ FilterSearch
    \/ HarvestStart
    \/ FilterDetail
    \/ \E k \in Slots : ConsumeRecord(k)
    \/ BatchSleepDone

SpecFilter == Init /\ [][NextFilter]_vars

(***************************************************************************)
(* One get_json call followed on its own, against an endpoint that may     *)
(* answer each attempt with any response; the answer to the last http.get  *)
(* is kept in answered.                                                    *)
(***************************************************************************)
ClientResponses ==
    FailureResponses
      \cup { OkResponse(Body("dict", <<>>)), OkResponse(Body("bad", <<>>)) }

ClientAnswer(c, r, j) ==
    /\ call[c].pc = "inflight"
    /\ Release(c)
    /\ call' = [call EXCEPT ![c] = Responded(@, r, j)]
    /\ answered' = [r |-> r, j |-> j, a |-> call[c].attempt]
    /\ UNCHANGED <<configVars, pageVars, mainVars>>

NextClient ==
    \/ Call(Main)
    \/ Acquire(Main)
    \/ \E r \in ClientResponses, j \in Jitters : ClientAnswer(Main, r, j)
    \/ ClientWake(Main)

SpecClient == InitClientOnly /\ [][NextClient]_vars

(***************************************************************************)
(* ClientCallers coroutines calling get_json once each, every attempt      *)
(* answered with any response, under the scheduling of FairTransient.      *)
(***************************************************************************)
AnyRespond(c) ==
    \E r \in ClientResponses, j \in RunJitters : ClientRespond(c, r, j)

NextClients ==
    \/ \E c \in ClientCallers : Call(c)
    \/ \E c \in ClientCallers : Acquire(c)
    \/ \E c \in ClientCallers : AnyRespond(c)
    \/ \E c \in ClientCallers : ClientWake(c)

SpecClients == InitClientOnly /\ [][NextClients]_vars

FairClients ==
    /\ SpecClients
    /\ \A c \in ClientCallers :
          /\ WF_vars(Acquire(c))
          /\ WF_vars(AnyRespond(c))
          /\ WF_vars(ClientWake(c))

\* the run of main under the same scheduling
FairSpec == Spec /\ WF_vars(Next)

(***************************************************************************)
(* Properties                                                              *)
(***************************************************************************)
InFlight == { c \in Callers : call[c].pc = "inflight" }
Unconsumed == { k \in Slots : tres[k].kind \in {"pending", "none", "exc", "payload"} }
FateIs(how) == { p[1] : p \in { q \in fate.detail : q[2] = how } }
Counted == ok_full + empty + failed
IsId(x) == x # NoId
\* the identifiers of the served product lists, each at its first appearance
FirstSeen == Dedup(SelectSeq(served.seq, IsId))
NoDuplicates(s) == Cardinality(Range(s)) = Len(s)
\* the batch of main's loop that the identifier id belongs to
BatchOf(id) == ((CHOOSE n \in DOMAIN nm_ids : nm_ids[n] = id) - 1) \div BatchSize
\* the rows of a sheet are in the order of their batches
BatchOrdered(ws) ==
    \A m, n \in 2..Len(ws) : m < n => BatchOf(ws[m].id) <= BatchOf(ws[n].id)

\* C1: against an endpoint that answers every attempt with a transient
\* status, get_json with max_attempts = N never returns, issues at most N
\* requests, has issued exactly N requests and slept N - 1 times when it
\* raises, does raise in the end, and with N = 1 never sleeps.
C1_State ==
    \A c \in ClientCallers :
        /\ call[c].pc # "returned"
        /\ call[c].gets <= max_attempts
        /\ call[c].pc = "raised" =>
              /\ call[c].gets = max_attempts
              /\ call[c].sleeps = IF max_attempts = 0 THEN 0 ELSE max_attempts - 1
        /\ max_attempts = 1 => call[c].sleeps = 0 /\ call[c].pc # "sleep"
C1_RetryBudget ==
    /\ []C1_State
    /\ \A c \in ClientCallers : (call[c].pc # "idle") ~> (call[c].pc = "raised")
C1_Witness ==
    \E c \in ClientCallers :
        /\ max_attempts = MaxAttempts
        /\ call[c].pc = "raised"
        /\ call[c].gets = MaxAttempts
        /\ call[c].sleeps = MaxAttempts - 1

\* C2: at no time are more HTTP calls in flight, of main and of the detail
\* tasks together, than the semaphore has permits.
C2_InFlightBounded == Cardinality(InFlight) <= SemPermits
C2_Witness ==
    /\ mpc = "drain"
    /\ Cardinality(InFlight) = SemPermits
    /\ \E k \in Slots : call[k].pc = "acquire" /\ call[k].attempt >= 2

\* C3: a caller holds a permit exactly while its http.get is in flight, in
\* first attempts and retries alike, so never during a backoff sleep; the
\* permits not held are available to the others.
C3_PermitOnlyInFlight ==
    /\ \A c \in Callers : (c \in holding) <=> (call[c].pc = "inflight")
    /\ \A c \in Callers : call[c].pc = "sleep" => c \notin holding
    /\ permits = SemPermits - Cardinality(holding)
C3_Witness ==
    \E c, d \in Slots :
        /\ c # d
        /\ call[c].pc = "sleep"
        /\ call[d].pc = "inflight"
        /\ call[d].attempt >= 2

\* C4: every row of the filtered sheet is a row of the full sheet, the same
\* record, and the filtered sheet never holds more rows than the full one.
C4_FilteredWithinFull ==
    /\ \A n \in DOMAIN ws_filt : \E m \in DOMAIN ws_full : ws_full[m] = ws_filt[n]
    /\ Len(ws_filt) <= Len(ws_full)
    /\ ok_filt <= ok_full
C4_Witness ==
    /\ Len(ws_filt) >= 2
    /\ Len(ws_full) > Len(ws_filt)

\* C5: at the end of a run over n detail fetches, e of them without payload
\* and f of them ended by get_json raising (none with a malformed body), the
\* counters are ok_full = n - e - f, empty = e, failed = f.
C5_CountersByOutcome ==
    (mpc = "done" /\ exc = "none" /\ FateIs("malformed") = {}) =>
        LET n == Cardinality(launched)
            e == Cardinality(FateIs("nopayload"))
            f == Cardinality(FateIs("raised"))
        IN  ok_full = n - e - f /\ empty = e /\ failed = f

\* C6: ok_full is the number of rows of the full sheet; every consumed task
\* has raised exactly one of ok_full, empty, failed, so that the three add up
\* to the tasks launched once a batch is drained and to the length of the
\* deduplicated list at the end of a run that was not aborted.
C6_CountersPartition ==
    /\ ok_full = Len(ws_full) - 1
    /\ Counted = Cardinality(launched) - Cardinality(Unconsumed)
    /\ mpc = "batch_sleep" => Counted = Cardinality(launched)
    /\ (mpc = "done" /\ exc = "none") => Counted = Len(nm_ids)
C6_Witness ==
    /\ mpc = "done"
    /\ exc = "none"
    /\ ok_full >= 1
    /\ empty >= 1
    /\ failed >= 1

\* C7: once detail tasks are launched no exception leaves main; a fetch that
\* did not end with a payload leaves no row; and at the end every identifier
\* of the list has had its task launched and settled.
C7_FailureIsolated ==
    /\ launched # {} => exc = "none"
    /\ \A p \in fate.detail :
          p[2] # "payload" => \A m \in DOMAIN ws_full : ws_full[m].id # p[1]
    /\ mpc = "batch_sleep" => settled = launched
    /\ (mpc = "done" /\ exc = "none") =>
          launched = Range(nm_ids) /\ settled = Range(nm_ids)
C7_Witness ==
    /\ mpc = "done"
    /\ Len(nm_ids) > BatchSize
    /\ nm_ids[1] \in FateIs("raised")
    /\ ok_full >= 1
    /\ settled = Range(nm_ids)

\* C8: when get_json raises during pagination the exception leaves main, no
\* detail task was ever launched, and both files are saved once, header
\* only; no file is saved before main ends and each is saved once when it
\* does, with the rows of its sheet.
C8_PaginationAbort ==
    /\ fate.page # "none" =>
          /\ mpc = "done"
          /\ exc = fate.page
          /\ launched = {}
          /\ disk = [full |-> <<HeaderRow>>, filt |-> <<HeaderRow>>]
    /\ mpc # "done" => saves = [f \in {"full", "filt"} |-> 0]
    /\ mpc = "done" =>
          /\ saves = [f \in {"full", "filt"} |-> 1]
          /\ disk = [full |-> ws_full, filt |-> ws_filt]
C8_Witness ==
    /\ fate.page # "none"
    /\ Len(requested) >= 2
    /\ nm_ids # <<>>
    /\ saves = [f \in {"full", "filt"} |-> 1]

\* C9: under fair scheduling every run ends with both files saved.
C9_Terminates ==
    <>(mpc = "done" /\ saves = [f \in {"full", "filt"} |-> 1])
C9_Witness ==
    /\ mpc = "done"
    /\ launched # {}
    /\ ok_full = 0
    /\ disk = [full |-> <<HeaderRow>>, filt |-> <<HeaderRow>>]
    /\ saves = [f \in {"full", "filt"} |-> 1]

\* C10: when the product list of page k+1 has the same non-empty identifier
\* set as that of page k, fetch_all_nm_ids returns on it: no page k+2 is
\* requested and the result is the deduplicated identifiers of pages 1..k.
C10_RepeatPageStops ==
    [][ ( /\ served'.n = served.n + 1
          /\ served.n >= 1
          /\ PageIdsOf(served'.last) # {}
          /\ PageIdsOf(served'.last) = PageIdsOf(served.last) )
        => ( /\ mpc' = "paged"
             /\ requested' = requested
             /\ Len(requested) = served'.n
             /\ nm_ids' = Dedup(nm_ids)
             /\ Range(nm_ids') = served'.all ) ]_vars
C10_Witness ==
    /\ mpc = "paged"
    /\ served.n = 3
    /\ served.prev # {}
    /\ PageIdsOf(served.last) = served.prev
    /\ requested = <<1, 2, 3>>
    /\ Range(nm_ids) = served.all

\* C11 (as stated): by whichever response the search endpoint reports that a
\* page has no products, an empty JSON body included, the collection does not
\* fail: it stops and returns the identifiers of the pages before.
C11_AnyEmptyReportStops ==
    /\ fate.page = "none"
    /\ mpc = "paged" => Range(nm_ids) = served.all \cup PageIdsOf(served.last)

\* C11 (amended): when the search endpoint answers page k+1 with a non-empty
\* JSON body that holds no products, after k >= 1 pages with products,
\* fetch_all_nm_ids returns on it the identifiers of pages 1..k, each once,
\* and requests no further page; an empty JSON body is not such an answer:
\* it is retried and on the last attempt ends the run with RuntimeError.
C11_EmptyPageStops ==
    /\ [](fate.page # "none" =>
            fate.page = "RuntimeError" /\ mpc = "done" /\ exc = "RuntimeError")
    /\ [][ ( /\ served'.n = served.n + 1
             /\ served.n >= 1
             /\ served'.last = <<>> )
           => ( /\ mpc' = "paged"
                /\ requested' = requested
                /\ Len(requested) = served'.n
                /\ NoDuplicates(nm_ids')
                /\ Range(nm_ids') = served'.all ) ]_vars
C11_Witness ==
    /\ mpc = "paged"
    /\ served.n = 3
    /\ served.last = <<>>
    /\ requested = <<1, 2, 3>>
    /\ Len(nm_ids) > Limit

\* C12: a product list that is not empty, shorter than limit and no repeat
\* of the page before has its identifiers in the result, and
\* fetch_all_nm_ids returns on it without requesting another page.
C12_PartialPageStops ==
    [][ ( /\ served'.n = served.n + 1
          /\ served'.last # <<>>
          /\ Len(served'.last) < Limit
          /\ ~( /\ PageIdsOf(served'.last) # {}
                /\ PageIdsOf(served'.last) = PageIdsOf(served.last) ) )
        => ( /\ mpc' = "paged"
             /\ requested' = requested
             /\ Len(requested) = served'.n
             /\ PageIdsOf(served'.last) \subseteq Range(nm_ids')
             /\ Range(nm_ids') = served'.all \cup PageIdsOf(served'.last) ) ]_vars
C12_Witness ==
    /\ mpc = "paged"
    /\ served.n = 2
    /\ served.last = <<MaxId>>
    /\ MaxId \notin served.all
    /\ MaxId \in Range(nm_ids)
    /\ requested = <<1, 2>>

\* C13: the pages requested are 1, 2, 3, ... in this order, none skipped or
\* repeated, and never more than max_pages of them.
C13_MaxPages ==
    /\ requested = [n \in 1..Len(requested) |-> n]
    /\ Len(requested) <= MaxPages
    /\ mpc = "await_page" => page = Len(requested) /\ page <= MaxPages
    /\ served.n <= Len(requested)
C13_Witness ==
    /\ mpc = "paged"
    /\ Len(requested) = MaxPages
    /\ served.n = MaxPages
    /\ Len(served.last) = Limit
    /\ PageIdsOf(served.last) # served.prev

\* C14: the list fetch_all_nm_ids returns has no identifier twice and lists
\* the identifiers in the order of their first appearance in the product
\* lists the endpoint returned, across pages and within a page.
C14_FirstSeenOrder ==
    mpc = "paged" => NoDuplicates(nm_ids) /\ nm_ids = FirstSeen

\* C15: while get_json sleeps before a retry, the delay is the Retry-After
\* value of the answer when that was a 429 with a parseable header, neither
\* clamped nor jittered; after any other answer (429 whose header is absent
\* or unparseable, another transient status, a transport error, an empty
\* body) it is min(max_delay, base_delay * 2^(attempt - 1)) plus the jitter.
C15_RetryAfter ==
    LET f == call[Main]
        r == answered.r
        parseable == r.ra # NoHeader /\ r.ra # BadHeader
    IN  f.pc = "sleep" =>
          /\ f.attempt = answered.a
          /\ f.attempt # max_attempts
          /\ IF r.kind = "http" /\ r.status = 429 /\ parseable
             THEN f.delay = r.ra
             ELSE f.delay =
                    Min(max_delay, base_delay * 2 ^ (f.attempt - 1)) + answered.j
C15_Witness ==
    /\ call[Main].pc = "sleep"
    /\ answered.r.status = 429
    /\ answered.r.ra > max_delay
    /\ answered.j > 0
    /\ call[Main].delay = answered.r.ra

\* C17: once an attempt was answered with a status that is neither 200 nor
\* transient, or with a transient status on the last attempt, get_json has
\* raised on that attempt: no request and no sleep follows it.
C17_FatalStatus ==
    LET f == call[Main]
        r == answered.r
    IN  ( /\ answered.a >= 1
          /\ r.kind = "http"
          /\ r.status # 200
          /\ (r.status \notin TRANSIENT \/ answered.a = max_attempts) )
        => ( /\ f.pc = "raised"
             /\ f.res = "RuntimeError"
             /\ f.attempt = answered.a
             /\ f.gets = answered.a
             /\ f.sleeps = answered.a - 1 )
C17_Witness ==
    /\ call[Main].pc = "raised"
    /\ answered.r.status = 404
    /\ answered.a = 1
    /\ max_attempts > 1
    /\ call[Main].gets = 1
    /\ call[Main].sleeps = 0

C16_BatchOrder ==
    /\ [](BatchOrdered(ws_full) /\ BatchOrdered(ws_filt))
    /\ [][ launched' # launched =>
             /\ Unconsumed = {}
             /\ settled = launched
             /\ \A a \in launched, b \in launched' \ launched :
                   BatchOf(a)' < BatchOf(b)' ]_vars
    /\ [][ ws_full' # ws_full =>
             /\ doneq # <<>>
             /\ doneq' = Tail(doneq)
             /\ Len(ws_full') = Len(ws_full) + 1
             /\ ws_full'[Len(ws_full')].id = task[Head(doneq)] ]_vars
C16_Witness ==
    /\ mpc = "done"
    /\ Len(nm_ids) = BatchSize + 1
    /\ Len(ws_full) = BatchSize + 2
    /\ Len(ws_filt) = BatchSize + 2
    /\ ws_full[2].id = nm_ids[2]
    /\ ws_full[3].id = nm_ids[1]
    /\ ws_full[BatchSize + 2].id = nm_ids[BatchSize + 1]

\* C19: a row of the full sheet is a row of the filtered sheet exactly when
\* its rating is present and at least 4.5, its price is present and at most
\* 10000, and has_russia finds a match in its characteristics.
C19_FilterIff ==
    \A n \in 2..Len(ws_full) :
        LET row == ws_full[n] IN
        (\E m \in 2..Len(ws_filt) : ws_filt[m] = row)
          <=> ( /\ row.rating # None
                /\ row.rating >= RatingMin
                /\ row.price # None
                /\ row.price <= PriceMax
                /\ has_russia(row.characteristics_json) )
C19_Witness ==
    /\ Len(ws_filt) = 2
    /\ ws_filt[2].rating = RatingMin
    /\ ws_filt[2].price = PriceMax
    /\ ws_filt[2].characteristics_json = TreeLeaf

\* C20: the permits taken are exactly those of the calls in flight, however
\* the earlier calls ended (response or transport error), so with no call in
\* flight the semaphore is full; and with every call in flight eventually
\* answered, a caller waiting for a permit eventually gets one.
C20_NoPermitLeak ==
    /\ [](permits = SemPermits - Cardinality(InFlight))
    /\ [](InFlight = {} => permits = SemPermits /\ holding = {})
    /\ \A c \in ClientCallers :
          (call[c].pc = "acquire") ~> (call[c].pc = "inflight")
C20_Witness ==
    \E c, d \in ClientCallers :
        /\ c # d
        /\ call[c].pc = "raised"
        /\ call[c].res = "HTTPError"
        /\ call[d].pc = "inflight"
        /\ call[d].attempt >= 2
        /\ permits = SemPermits - 1

====
